---- MODULE Spec2Model ----
(***************************************************************************)
(* The job-processing engine of HWC-POTREE-API: the job store              *)
(* (storage/db.py), the worker loop and the conversion pipeline            *)
(* (worker.py).  Every store call and every collaborator call is one       *)
(* atomic step of the worker that makes it; workers interleave freely.     *)
(*                                                                         *)
(* Environment: a store call or a collaborator call that raises has no     *)
(* effect; the deletions of cleanup_temp_files and shutil.rmtree succeed   *)
(* (their handlers only log); job ids are fresh (the caller draws UUIDs).  *)
(***************************************************************************)
EXTENDS Integers, FiniteSets, Sequences, TLC

\* ------------------------------------------------------------- bounds
NumWorkers == 2
MaxJobs == 2
NumCallers == 2

\* -------------------------------------------------- program constants
RetentionHours == 72
CleanupIntervalHours == 1

Workers == 1..NumWorkers
JobIds == 1..MaxJobs
Callers == 1..NumCallers
ProjectIds == {"p1", "p2"}

\* The clock counts hours; it is sampled at three instants: 0, the instant a
\* job created at 0 reaches the retention age, and one cleanup interval later.
TimePoints == {0, RetentionHours, RetentionHours + CleanupIntervalHours}

None == "None"
Terminal == {"completed", "failed"}
Steps == <<"metadata", "thumbnail", "conversion", "upload", "completed">>

VARIABLES
    jobs,              \* jobsCollection: job id -> row, for the rows that exist
    projects,          \* projectsCollection: project id -> document
    now,               \* datetime.utcnow(), in hours
    localFile,         \* job id -> the local input file job.file_path exists
    stagingBlob,       \* job id -> the remote object job.azure_path exists
    outputDir,         \* job id -> the directory potree_<job id>_ exists
    issued,            \* the job ids the enqueuing caller has used
    pc,                \* worker -> position in start() / process_job()
    running,           \* worker -> self.running
    last_cleanup_time, \* worker -> self.last_cleanup_time (<<>> is None)
    deleted_count,     \* worker -> what cleanup_old_jobs returned in the call
                       \*   of _check_and_run_cleanup just made (PurgeRaised
                       \*   when it raised, 0 when it was not called)
    job,               \* worker -> the Job object get_next_job returned
    project,           \* worker -> the Project object of process_job
    output_dir,        \* worker -> the local output_dir is bound
    exc,               \* worker -> str(e) of the exception being handled
    project_read,      \* worker -> the Project as getProject returned it
    claims,            \* history: job id -> times get_next_job returned it
    ran,               \* history: worker -> collaborators invoked in this run
    raised,            \* history: worker -> calls that raised in this run
    cleanupRuns,       \* history: worker -> cleanup_temp_files calls, this run
    rmtreeRuns,        \* history: worker -> shutil.rmtree calls, this run
    creating,          \* caller -> the job id create_job found unused (else 0)
    create_result,     \* caller -> how the caller's last create_job ended
    uploading,         \* caller -> the project id addProject found unused
    updating,          \* caller -> the Project update_project has read
    response,          \* caller -> status code of the caller's last request
    stop_called        \* worker -> stop() has been called on it

files == <<localFile, stagingBlob, outputDir>>
loopVars == <<running, last_cleanup_time, deleted_count>>
locals == <<job, project, output_dir, exc>>
runHist == <<project_read, ran, raised, cleanupRuns, rmtreeRuns>>
apiVars == <<creating, create_result, uploading, updating, response,
            stop_called>>
workerVars == <<pc, loopVars, locals, claims, runHist>>
vars == <<jobs, projects, now, files, issued, pc, loopVars, locals, claims,
          runHist, apiVars>>

\* ---------------------------------------------------------- job store

\* models.Job: the fields of a new job; optional fields default to None.
Job(job_id, project_id, t) ==
    [id |-> job_id, project_id |-> project_id, status |-> "pending",
     file_path |-> "upload.laz", azure_path |-> "jobs/job.laz",
     current_step |-> None, progress_message |-> None, error_message |-> None,
     retry_count |-> 0, created_at |-> t, completed_at |-> <<>>]

\* DatabaseManager.create_job: the insert, once the id was found unused.
create_job(J, project_id, job_id, t) ==
    [j \in (DOMAIN J) \cup {job_id} |->
        IF j = job_id THEN Job(job_id, project_id, t) ELSE J[j]]

\* The keyword arguments update_job_status copies into update_fields.
KwFields == {"current_step", "progress_message", "error_message", "retry_count"}

\* Variant of update_job_status that stamps completed_at for "completed"
\* only: a failed job would keep completed_at unset.
update_job_status_stamp_completed(J, job_id, status, kwargs, t) ==
    LET supplied == (DOMAIN kwargs) \cap KwFields
        stamped == IF status = "completed" THEN {"completed_at"} ELSE {}
        update_fields ==
            [f \in {"status"} \cup supplied \cup stamped |->
                IF f = "status" THEN status
                ELSE IF f = "completed_at" THEN <<t>>
                ELSE kwargs[f]]
    IN  IF job_id \in DOMAIN J
        THEN [J EXCEPT ![job_id] =
                 [f \in DOMAIN J[job_id] |->
                     IF f \in DOMAIN update_fields THEN update_fields[f]
                     ELSE J[job_id][f]]]
        ELSE J

\* Variant of update_job_status that writes every keyword field, None for
\* the ones the caller left out: mark_failed would erase current_step.
update_job_status_replace(J, job_id, status, kwargs, t) ==
    LET stamped == IF status \in Terminal THEN {"completed_at"} ELSE {}
        written == {"status", "current_step"} \cup ((DOMAIN kwargs) \cap KwFields)
                      \cup stamped
        update_fields ==
            [f \in written |->
                IF f = "status" THEN status
                ELSE IF f = "completed_at" THEN <<t>>
                ELSE IF f \in DOMAIN kwargs THEN kwargs[f]
                ELSE None]
    IN  IF job_id \in DOMAIN J
        THEN [J EXCEPT ![job_id] =
                 [f \in DOMAIN J[job_id] |->
                     IF f \in DOMAIN update_fields THEN update_fields[f]
                     ELSE J[job_id][f]]]
        ELSE J

\* DatabaseManager.update_job_status: update_one({'_id': job_id}, {'$set': ...}),
\* no upsert.
update_job_status(J, job_id, status, kwargs, t) ==
    LET supplied == (DOMAIN kwargs) \cap KwFields
        stamped == IF status \in Terminal THEN {"completed_at"} ELSE {}
        update_fields ==
            [f \in {"status"} \cup supplied \cup stamped |->
                IF f = "status" THEN status
                ELSE IF f = "completed_at" THEN <<t>>
                ELSE kwargs[f]]
    IN  IF job_id \in DOMAIN J
        THEN [J EXCEPT ![job_id] =
                 [f \in DOMAIN J[job_id] |->
                     IF f \in DOMAIN update_fields THEN update_fields[f]
                     ELSE J[job_id][f]]]
        ELSE J

\* Variant of OldJobs with the filter $lte: a job exactly `hours` old goes.
OldJobsInclusive(J, t, hours) == {j \in DOMAIN J : J[j].created_at <= t - hours}

\* DatabaseManager.cleanup_old_jobs: the rows delete_many removes.
OldJobs(J, t, hours) == {j \in DOMAIN J : J[j].created_at < t - hours}

\* DatabaseManager.cleanup_old_jobs: the collection afterwards.
cleanup_old_jobs(J, t, hours) ==
    [j \in (DOMAIN J) \ OldJobs(J, t, hours) |-> J[j]]

\* Variant of NextPending whose filter is {"status": {"$ne": "processing"}}:
\* finished jobs are candidates again.
NextNotProcessing(J) ==
    {j \in DOMAIN J :
        /\ J[j].status # "processing"
        /\ \A k \in DOMAIN J :
              J[k].status # "processing" => J[j].created_at <= J[k].created_at}

\* Variant of NextPending whose filter is every job that is not finished:
\* a job in processing is a candidate again.
NextNotTerminal(J) ==
    {j \in DOMAIN J :
        /\ J[j].status \notin Terminal
        /\ \A k \in DOMAIN J :
              J[k].status \notin Terminal => J[j].created_at <= J[k].created_at}

\* Variant of NextPending that sorts created_at descending.
NewestPending(J) ==
    {j \in DOMAIN J :
        /\ J[j].status = "pending"
        /\ \A k \in DOMAIN J :
              J[k].status = "pending" => J[j].created_at >= J[k].created_at}

\* JobWorker.get_next_job: the rows find_one_and_update may pick,
\* filter {"status": "pending"}, sort created_at ascending.
NextPending(J) ==
    {j \in DOMAIN J :
        /\ J[j].status = "pending"
        /\ \A k \in DOMAIN J :
              J[k].status = "pending" => J[j].created_at <= J[k].created_at}

\* Variant of SetProcessing that is a plain find_one: the row stays pending.
FindOnly(J, j) == J

\* JobWorker.get_next_job: the $set of find_one_and_update.
SetProcessing(J, j) == [J EXCEPT ![j].status = "processing"]

\* DatabaseManager.updateProject: update_one({'_id': id}, {'$set': doc}).
updateProject(P, proj) ==
    IF proj.id \in DOMAIN P THEN [P EXCEPT ![proj.id] = proj] ELSE P

\* ------------------------------------------------------------ initial

NoJobHeld == [id |-> 0, project_id |-> None, created_at |-> 0]
NoProject == [id |-> None, name |-> None, crs |-> None, location |-> None,
              point_count |-> 0, thumbnail |-> None, cloud |-> None]

\* upload_project: the document of a new project.
NewProject(id) == [id |-> id, name |-> "name0", crs |-> "26916",
                   location |-> "Location()", point_count |-> 0,
                   thumbnail |-> None, cloud |-> None]

Init ==
    /\ jobs = <<>>
    /\ projects = [p \in {"p1"} |-> NewProject(p)]
    /\ now = 0
    /\ localFile = [j \in JobIds |-> FALSE]
    /\ stagingBlob = [j \in JobIds |-> FALSE]
    /\ outputDir = [j \in JobIds |-> FALSE]
    /\ issued = {}
    /\ pc = [w \in Workers |-> "start"]
    /\ running = [w \in Workers |-> FALSE]
    /\ last_cleanup_time = [w \in Workers |-> <<>>]
    /\ deleted_count = [w \in Workers |-> 0]
    /\ job = [w \in Workers |-> NoJobHeld]
    /\ project = [w \in Workers |-> NoProject]
    /\ output_dir = [w \in Workers |-> FALSE]
    /\ exc = [w \in Workers |-> None]
    /\ project_read = [w \in Workers |-> NoProject]
    /\ claims = [j \in JobIds |-> 0]
    /\ ran = [w \in Workers |-> {}]
    /\ raised = [w \in Workers |-> {}]
    /\ cleanupRuns = [w \in Workers |-> 0]
    /\ rmtreeRuns = [w \in Workers |-> 0]
    /\ creating = [c \in Callers |-> 0]
    /\ create_result = [c \in Callers |-> None]
    /\ uploading = [c \in Callers |-> None]
    /\ updating = [c \in Callers |-> NoProject]
    /\ response = [c \in Callers |-> 0]
    /\ stop_called = [w \in Workers |-> FALSE]

\* -------------------------------------------------------- environment

\* The enqueuing caller: stages the input locally and remotely, then
\* create_job with a fresh id; create_job raises when the id exists.
Enqueue(p) ==
    LET j == Cardinality(issued) + 1 IN
    /\ j \in JobIds
    /\ j \notin DOMAIN jobs
    /\ issued' = issued \cup {j}
    /\ jobs' = create_job(jobs, p, j, now)
    /\ localFile' = [localFile EXCEPT ![j] = TRUE]
    /\ stagingBlob' = [stagingBlob EXCEPT ![j] = TRUE]
    /\ UNCHANGED <<projects, now, outputDir, pc, loopVars, locals, claims, apiVars,
                   runHist>>

\* Time passes.
Tick ==
    /\ \E t \in TimePoints : t > now /\ now' = t
    /\ UNCHANGED <<jobs, projects, files, issued, pc, loopVars, locals, claims, apiVars,
                   runHist>>

\* -------------------------------------------------------- worker loop

\* while self.running: the test that follows the end of an iteration, read
\* in the step that ends the iteration (self.running is written by start()
\* and stop() only).
LoopTest(r) == IF r THEN "check_cleanup" ELSE "stopped"

\* JobWorker.start, up to the first test of the loop.
Start(w) ==
    /\ pc[w] = "start"
    /\ running' = [running EXCEPT ![w] = TRUE]
    /\ pc' = [pc EXCEPT ![w] = LoopTest(TRUE)]
    /\ UNCHANGED <<jobs, projects, now, files, issued, last_cleanup_time,
                   deleted_count, locals, claims, apiVars, runHist>>

\* JobWorker.stop: self.running = False, whatever the worker is doing.
Stop(w) ==
    /\ running[w] \/ ~stop_called[w]
    /\ running' = [running EXCEPT ![w] = FALSE]
    /\ stop_called' = [stop_called EXCEPT ![w] = TRUE]
    /\ UNCHANGED <<jobs, projects, now, files, issued, pc, last_cleanup_time,
                   deleted_count, locals, claims, runHist, creating,
                   create_result, uploading, updating, response>>

\* JobWorker.start with a stop() between self.running = True and the first
\* test of the loop: the loop body never runs.
StartStopped(w) ==
    /\ pc[w] = "start"
    /\ running' = [running EXCEPT ![w] = FALSE]
    /\ stop_called' = [stop_called EXCEPT ![w] = TRUE]
    /\ pc' = [pc EXCEPT ![w] = LoopTest(FALSE)]
    /\ UNCHANGED <<jobs, projects, now, files, issued, last_cleanup_time,
                   deleted_count, locals, claims, runHist, creating,
                   create_result, uploading, updating, response>>

\* What deleted_count holds when cleanup_old_jobs raised and returned
\* nothing: the handler of _check_and_run_cleanup logged the error.
PurgeRaised == -1

\* Variant of should_cleanup without the first-run branch: with no purge
\* made yet, nothing is due.
should_cleanup_no_first(last, force, t) ==
    IF last = <<>> THEN FALSE
    ELSE (t - last[1]) >= CleanupIntervalHours

\* Variant of should_cleanup whose force branch does not look at the time
\* passed: after every job the purge is due.
should_cleanup_force_always(last, force, t) ==
    IF last = <<>> THEN TRUE
    ELSE IF force THEN TRUE
    ELSE (t - last[1]) >= CleanupIntervalHours

\* JobWorker._check_and_run_cleanup: should_cleanup.
should_cleanup(last, force, t) ==
    IF last = <<>> THEN TRUE
    ELSE IF force THEN (t - last[1]) >= CleanupIntervalHours
    ELSE (t - last[1]) >= CleanupIntervalHours

\* A variant of the call without the try around cleanup_old_jobs: a
\* purge that raises is caught by the handler of the loop.
check_and_run_cleanup_uncaught(w, force, next) ==
    /\ \/ /\ should_cleanup(last_cleanup_time[w], force, now)
          /\ jobs' = cleanup_old_jobs(jobs, now, RetentionHours)
          /\ deleted_count' =
                [deleted_count EXCEPT
                    ![w] = Cardinality(OldJobs(jobs, now, RetentionHours))]
          /\ last_cleanup_time' = [last_cleanup_time EXCEPT ![w] = <<now>>]
          /\ pc' = [pc EXCEPT ![w] = next]
       \/ /\ should_cleanup(last_cleanup_time[w], force, now)
          /\ deleted_count' = [deleted_count EXCEPT ![w] = PurgeRaised]
          /\ pc' = [pc EXCEPT ![w] = "loop_except"]
          /\ UNCHANGED <<jobs, last_cleanup_time>>
       \/ /\ ~should_cleanup(last_cleanup_time[w], force, now)
          /\ deleted_count' = [deleted_count EXCEPT ![w] = 0]
          /\ pc' = [pc EXCEPT ![w] = next]
          /\ UNCHANGED <<jobs, last_cleanup_time>>
    /\ UNCHANGED <<projects, now, files, issued, running, locals, claims, apiVars,
                   runHist>>

\* A variant of the call that does not record the time of the purge.
check_and_run_cleanup_unstamped(w, force, next) ==
    /\ \/ /\ should_cleanup(last_cleanup_time[w], force, now)
          /\ jobs' = cleanup_old_jobs(jobs, now, RetentionHours)
          /\ deleted_count' =
                [deleted_count EXCEPT
                    ![w] = Cardinality(OldJobs(jobs, now, RetentionHours))]
          /\ UNCHANGED last_cleanup_time
       \/ /\ ~should_cleanup(last_cleanup_time[w], force, now)
          /\ deleted_count' = [deleted_count EXCEPT ![w] = 0]
          /\ UNCHANGED <<jobs, last_cleanup_time>>
    /\ pc' = [pc EXCEPT ![w] = next]
    /\ UNCHANGED <<projects, now, files, issued, running, locals, claims, apiVars,
                   runHist>>

\* A variant of the call that records the time before it purges: a purge
\* that raises is stamped as well.
check_and_run_cleanup_stamp_first(w, force, next) ==
    /\ \/ /\ should_cleanup(last_cleanup_time[w], force, now)
          /\ jobs' = cleanup_old_jobs(jobs, now, RetentionHours)
          /\ deleted_count' =
                [deleted_count EXCEPT
                    ![w] = Cardinality(OldJobs(jobs, now, RetentionHours))]
          /\ last_cleanup_time' = [last_cleanup_time EXCEPT ![w] = <<now>>]
       \/ /\ should_cleanup(last_cleanup_time[w], force, now)
          /\ deleted_count' = [deleted_count EXCEPT ![w] = PurgeRaised]
          /\ last_cleanup_time' = [last_cleanup_time EXCEPT ![w] = <<now>>]
          /\ UNCHANGED jobs
       \/ /\ ~should_cleanup(last_cleanup_time[w], force, now)
          /\ deleted_count' = [deleted_count EXCEPT ![w] = 0]
          /\ UNCHANGED <<jobs, last_cleanup_time>>
    /\ pc' = [pc EXCEPT ![w] = next]
    /\ UNCHANGED <<projects, now, files, issued, running, locals, claims, apiVars,
                   runHist>>

\* JobWorker._check_and_run_cleanup: the whole call; a raising purge is
\* swallowed and leaves last_cleanup_time alone.
check_and_run_cleanup(w, force, next) ==
    /\ \/ /\ should_cleanup(last_cleanup_time[w], force, now)
          /\ jobs' = cleanup_old_jobs(jobs, now, RetentionHours)
          /\ deleted_count' =
                [deleted_count EXCEPT
                    ![w] = Cardinality(OldJobs(jobs, now, RetentionHours))]
          /\ last_cleanup_time' = [last_cleanup_time EXCEPT ![w] = <<now>>]
       \/ /\ should_cleanup(last_cleanup_time[w], force, now)
          /\ deleted_count' = [deleted_count EXCEPT ![w] = PurgeRaised]
          /\ UNCHANGED <<jobs, last_cleanup_time>>
       \/ /\ ~should_cleanup(last_cleanup_time[w], force, now)
          /\ deleted_count' = [deleted_count EXCEPT ![w] = 0]
          /\ UNCHANGED <<jobs, last_cleanup_time>>
    /\ pc' = [pc EXCEPT ![w] = next]
    /\ UNCHANGED <<projects, now, files, issued, running, locals, claims, apiVars,
                   runHist>>

\* self._check_and_run_cleanup() at the top of an iteration.
CheckCleanup(w) ==
    /\ pc[w] = "check_cleanup"
    /\ check_and_run_cleanup(w, FALSE, "get_next_job")

\* self._check_and_run_cleanup(force=True) after process_job.
ForceCleanup(w) ==
    /\ pc[w] = "force_cleanup"
    /\ check_and_run_cleanup(w, TRUE, LoopTest(running[w]))

\* Variant of get_next_job without its try: an exception of the store ends
\* start().
GetNextJobUncaught(w) ==
    /\ pc[w] = "get_next_job"
    /\ \/ \E j \in NextPending(jobs) :
             /\ jobs' = SetProcessing(jobs, j)
             /\ job' = [job EXCEPT
                          ![w] = [id |-> j, project_id |-> jobs[j].project_id,
                                  created_at |-> jobs[j].created_at]]
             /\ claims' = [claims EXCEPT ![j] = @ + 1]
             /\ pc' = [pc EXCEPT ![w] = "get_project"]
       \/ /\ NextPending(jobs) = {}
          /\ pc' = [pc EXCEPT ![w] = "sleep"]
          /\ UNCHANGED <<jobs, job, claims>>
       \/ /\ pc' = [pc EXCEPT ![w] = "stopped"]
          /\ UNCHANGED <<jobs, job, claims>>
    /\ deleted_count' = [deleted_count EXCEPT ![w] = 0]
    /\ UNCHANGED <<projects, now, files, issued, running, last_cleanup_time,
                   project, output_dir, exc, runHist, apiVars>>

\* JobWorker.get_next_job: one find_one_and_update; an exception gives None.
GetNextJob(w) ==
    /\ pc[w] = "get_next_job"
    /\ \/ \E j \in NextPending(jobs) :
             /\ jobs' = SetProcessing(jobs, j)
             /\ job' = [job EXCEPT
                          ![w] = [id |-> j, project_id |-> jobs[j].project_id,
                                  created_at |-> jobs[j].created_at]]
             /\ claims' = [claims EXCEPT ![j] = @ + 1]
             /\ pc' = [pc EXCEPT ![w] = "get_project"]
       \/ /\ NextPending(jobs) = {}
          /\ pc' = [pc EXCEPT ![w] = "sleep"]
          /\ UNCHANGED <<jobs, job, claims>>
       \/ /\ pc' = [pc EXCEPT ![w] = "sleep"]
          /\ UNCHANGED <<jobs, job, claims>>
    /\ deleted_count' = [deleted_count EXCEPT ![w] = 0]
    /\ UNCHANGED <<projects, now, files, issued, running, last_cleanup_time,
                   project, output_dir, exc, runHist, apiVars>>

\* time.sleep(self.poll_interval) in the else branch.
Sleep(w) ==
    /\ pc[w] = "sleep"
    /\ pc' = [pc EXCEPT ![w] = LoopTest(running[w])]
    /\ UNCHANGED <<jobs, projects, now, files, issued, loopVars, locals,
                   claims, apiVars, runHist>>

\* ----------------------------------------------------------- pipeline

\* str(e) of the exception each call raises.
ErrMsg == [getProject |-> "Project not found", metadata |-> "metadata failed",
           conversion |-> "conversion failed", upload |-> "upload failed",
           store |-> "store unavailable"]

\* What CloudMetadata.summary() may return: a center or None, points or 0.
MetadataResults == {[center |-> TRUE, points |-> 7],
                    [center |-> FALSE, points |-> 0]}

\* The positions inside process_job.
PipelinePcs == {"get_project", "upd_metadata", "metadata", "upd_thumbnail",
                "thumbnail", "update_project1", "upd_conversion", "convert",
                "upd_upload", "upload", "update_project2", "upd_completed",
                "cleanup_ok", "rmtree_ok", "mark_failed", "cleanup_failed",
                "rmtree_failed", "return"}

\* The positions of process_job's try block at which the next call is a
\* job-store or project-store call.
StoreCalls == {"get_project", "upd_metadata", "upd_thumbnail", "update_project1",
               "upd_conversion", "upd_upload", "update_project2",
               "upd_completed"}

\* An exception raised inside the try block of process_job: control moves
\* to the handler, which starts with mark_failed(job, str(e)).
Raise(w, call, msg) ==
    /\ raised' = [raised EXCEPT ![w] = @ \cup {call}]
    /\ exc' = [exc EXCEPT ![w] = msg]
    /\ pc' = [pc EXCEPT ![w] = "mark_failed"]

\* process_job is left: its locals go out of scope.
Release(w) ==
    /\ job' = [job EXCEPT ![w] = NoJobHeld]
    /\ project' = [project EXCEPT ![w] = NoProject]
    /\ output_dir' = [output_dir EXCEPT ![w] = FALSE]
    /\ exc' = [exc EXCEPT ![w] = None]
    /\ project_read' = [project_read EXCEPT ![w] = NoProject]
    /\ ran' = [ran EXCEPT ![w] = {}]
    /\ raised' = [raised EXCEPT ![w] = {}]
    /\ cleanupRuns' = [cleanupRuns EXCEPT ![w] = 0]
    /\ rmtreeRuns' = [rmtreeRuns EXCEPT ![w] = 0]

\* A store call of the try block raises (the store is unavailable).
StoreRaises(w) ==
    /\ pc[w] \in StoreCalls
    /\ Raise(w, pc[w], ErrMsg.store)
    /\ UNCHANGED <<jobs, projects, now, files, issued, loopVars, job, project,
                   output_dir, claims, apiVars, project_read, ran, cleanupRuns,
                   rmtreeRuns>>

\* project = self.db.getProject(...); if not project: raise ValueError.
GetProject(w) ==
    /\ pc[w] = "get_project"
    /\ IF job[w].project_id \in DOMAIN projects
       THEN /\ project' = [project EXCEPT ![w] = projects[job[w].project_id]]
            /\ project_read' =
                  [project_read EXCEPT ![w] = projects[job[w].project_id]]
            /\ pc' = [pc EXCEPT ![w] = "upd_metadata"]
            /\ UNCHANGED <<raised, exc>>
       ELSE /\ Raise(w, "getProject", ErrMsg.getProject)
            /\ UNCHANGED <<project, project_read>>
    /\ UNCHANGED <<jobs, projects, now, files, issued, loopVars, job,
                   output_dir, claims, apiVars, ran, cleanupRuns, rmtreeRuns>>

\* Variant of Progress that persists the message without the step.
ProgressMessageOnly(w, at, step, message, next) ==
    /\ pc[w] = at
    /\ jobs' = update_job_status(jobs, job[w].id, "processing",
                  [progress_message |-> message], now)
    /\ pc' = [pc EXCEPT ![w] = next]
    /\ UNCHANGED <<projects, now, files, issued, loopVars, locals, claims, apiVars,
                   runHist>>

\* update_job_status(job.id, "processing", current_step=..., progress_message=...)
Progress(w, at, step, message, next) ==
    /\ pc[w] = at
    /\ jobs' = update_job_status(jobs, job[w].id, "processing",
                  [current_step |-> step, progress_message |-> message], now)
    /\ pc' = [pc EXCEPT ![w] = next]
    /\ UNCHANGED <<projects, now, files, issued, loopVars, locals, claims, apiVars,
                   runHist>>

UpdMetadata(w) ==
    Progress(w, "upd_metadata", "metadata",
             "Extracting point cloud metadata...", "metadata")

\* Variant of Metadata that writes the project as soon as the metadata is
\* known instead of waiting for the thumbnail.
MetadataFlush(w) ==
    /\ pc[w] = "metadata"
    /\ ran' = [ran EXCEPT ![w] = @ \cup {"metadata"}]
    /\ \/ \E m \in MetadataResults :
             /\ project' = [project EXCEPT
                   ![w].location = IF m.center THEN "center" ELSE @,
                   ![w].point_count = IF m.points # 0 THEN m.points ELSE @]
             /\ projects' = updateProject(projects, project'[w])
             /\ pc' = [pc EXCEPT ![w] = "upd_thumbnail"]
             /\ UNCHANGED <<raised, exc>>
       \/ /\ Raise(w, "metadata", ErrMsg.metadata)
          /\ UNCHANGED <<project, projects>>
    /\ UNCHANGED <<jobs, now, files, issued, loopVars, job,
                   output_dir, claims, apiVars, project_read, cleanupRuns, rmtreeRuns>>

\* crs_epsg = f"EPSG:{project.crs.id}" if project.crs and project.crs.id
\* else None: the hint given to CloudMetadata.
crs_epsg(proj) == IF proj.crs # None THEN "EPSG:" \o proj.crs ELSE None

\* Variant of Metadata that takes the CRS found in the file as the
\* project's CRS.
MetadataDerivesCrs(w) ==
    /\ pc[w] = "metadata"
    /\ ran' = [ran EXCEPT ![w] = @ \cup {"metadata"}]
    /\ \/ \E m \in MetadataResults :
             /\ project' = [project EXCEPT
                   ![w].location = IF m.center THEN "center" ELSE @,
                   ![w].point_count = IF m.points # 0 THEN m.points ELSE @,
                   ![w].crs = "4326"]
             /\ pc' = [pc EXCEPT ![w] = "upd_thumbnail"]
             /\ UNCHANGED <<raised, exc>>
       \/ /\ Raise(w, "metadata", ErrMsg.metadata)
          /\ UNCHANGED project
    /\ UNCHANGED <<jobs, projects, now, files, issued, loopVars, job,
                   output_dir, claims, apiVars, project_read, cleanupRuns, rmtreeRuns>>

\* CloudMetadata(job.file_path, crs_epsg).summary() and its use.
Metadata(w) ==
    /\ pc[w] = "metadata"
    /\ ran' = [ran EXCEPT ![w] = @ \cup {"metadata"}]
    /\ \/ \E m \in MetadataResults :
             /\ project' = [project EXCEPT
                   ![w].location = IF m.center THEN "center" ELSE @,
                   ![w].point_count = IF m.points # 0 THEN m.points ELSE @]
             /\ pc' = [pc EXCEPT ![w] = "upd_thumbnail"]
             /\ UNCHANGED <<raised, exc>>
       \/ /\ Raise(w, "metadata", ErrMsg.metadata)
          /\ UNCHANGED project
    /\ UNCHANGED <<jobs, projects, now, files, issued, loopVars, job,
                   output_dir, claims, apiVars, project_read, cleanupRuns, rmtreeRuns>>

UpdThumbnail(w) ==
    Progress(w, "upd_thumbnail", "thumbnail", "Generating thumbnail...",
             "thumbnail")

\* Variant of Thumbnail without the inner try: its exception reaches the
\* handler of process_job like that of any other step.
ThumbnailFatal(w) ==
    /\ pc[w] = "thumbnail"
    /\ ran' = [ran EXCEPT ![w] = @ \cup {"thumbnail"}]
    /\ \/ /\ project' = [project EXCEPT ![w].thumbnail = "thumbnail.png?sas"]
          /\ pc' = [pc EXCEPT ![w] = "update_project1"]
          /\ UNCHANGED <<raised, exc>>
       \/ /\ Raise(w, "thumbnail", "thumbnail failed")
          /\ UNCHANGED project
    /\ UNCHANGED <<jobs, projects, now, files, issued, loopVars, job,
                   output_dir, claims, apiVars, project_read, cleanupRuns, rmtreeRuns>>

\* generate_from_las, upload_bytes, generate_sas_url inside the inner try:
\* an exception of any of the three is logged and processing continues.
Thumbnail(w) ==
    /\ pc[w] = "thumbnail"
    /\ ran' = [ran EXCEPT ![w] = @ \cup {"thumbnail"}]
    /\ \/ /\ project' = [project EXCEPT ![w].thumbnail = "thumbnail.png?sas"]
          /\ UNCHANGED raised
       \/ /\ raised' = [raised EXCEPT ![w] = @ \cup {"thumbnail"}]
          /\ UNCHANGED project
    /\ pc' = [pc EXCEPT ![w] = "update_project1"]
    /\ UNCHANGED <<jobs, projects, now, files, issued, loopVars, job,
                   output_dir, exc, claims, apiVars, project_read, cleanupRuns,
                   rmtreeRuns>>

\* self.db.updateProject(project)
WriteProject(w, at, next) ==
    /\ pc[w] = at
    /\ projects' = updateProject(projects, project[w])
    /\ pc' = [pc EXCEPT ![w] = next]
    /\ UNCHANGED <<jobs, now, files, issued, loopVars, locals, claims, apiVars, runHist>>

UpdateProject1(w) == WriteProject(w, "update_project1", "upd_conversion")

UpdConversion(w) ==
    Progress(w, "upd_conversion", "conversion",
             "Converting to Potree format...", "convert")

\* tempfile.mkdtemp(...) then converter.convert(...): mkdtemp may raise
\* before output_dir is bound, convert after the directory exists.
Convert(w) ==
    /\ pc[w] = "convert"
    /\ ran' = [ran EXCEPT ![w] = @ \cup {"conversion"}]
    /\ \/ /\ Raise(w, "conversion", ErrMsg.conversion)
          /\ UNCHANGED <<outputDir, output_dir>>
       \/ /\ outputDir' = [outputDir EXCEPT ![job[w].id] = TRUE]
          /\ output_dir' = [output_dir EXCEPT ![w] = TRUE]
          /\ Raise(w, "conversion", ErrMsg.conversion)
       \/ /\ outputDir' = [outputDir EXCEPT ![job[w].id] = TRUE]
          /\ output_dir' = [output_dir EXCEPT ![w] = TRUE]
          /\ pc' = [pc EXCEPT ![w] = "upd_upload"]
          /\ UNCHANGED <<raised, exc>>
    /\ UNCHANGED <<jobs, projects, now, localFile, stagingBlob, issued,
                   loopVars, job, project, claims, apiVars, project_read, cleanupRuns,
                   rmtreeRuns>>

UpdUpload(w) ==
    Progress(w, "upd_upload", "upload", "Uploading Potree files to Azure...",
             "upload")

\* cloud_url = self._upload_potree_output(...); project.cloud = cloud_url
Upload(w) ==
    /\ pc[w] = "upload"
    /\ ran' = [ran EXCEPT ![w] = @ \cup {"upload"}]
    /\ \/ /\ project' = [project EXCEPT ![w].cloud = "metadata.json?sas"]
          /\ pc' = [pc EXCEPT ![w] = "update_project2"]
          /\ UNCHANGED <<raised, exc>>
       \/ /\ Raise(w, "upload", ErrMsg.upload)
          /\ UNCHANGED project
    /\ UNCHANGED <<jobs, projects, now, files, issued, loopVars, job,
                   output_dir, claims, apiVars, project_read, cleanupRuns, rmtreeRuns>>

UpdateProject2(w) == WriteProject(w, "update_project2", "upd_completed")

\* Variant of the completed write that sets the status without the step.
UpdCompletedStatusOnly(w) ==
    /\ pc[w] = "upd_completed"
    /\ jobs' = update_job_status(jobs, job[w].id, "completed",
                  [progress_message |-> "Processing completed successfully"],
                  now)
    /\ pc' = [pc EXCEPT ![w] = "cleanup_ok"]
    /\ UNCHANGED <<projects, now, files, issued, loopVars, locals, claims, apiVars,
                   runHist>>

\* update_job_status(job.id, "completed", current_step="completed", ...)
UpdCompleted(w) ==
    /\ pc[w] = "upd_completed"
    /\ jobs' = update_job_status(jobs, job[w].id, "completed",
                  [current_step |-> "completed",
                   progress_message |-> "Processing completed successfully"],
                  now)
    /\ pc' = [pc EXCEPT ![w] = "cleanup_ok"]
    /\ UNCHANGED <<projects, now, files, issued, loopVars, locals, claims, apiVars,
                   runHist>>

\* Variant of the handler of process_job that goes on to the cleanup
\* without recording the failure.
MarkFailedSkipped(w) ==
    /\ pc[w] = "mark_failed"
    /\ pc' = [pc EXCEPT ![w] = "cleanup_failed"]
    /\ UNCHANGED <<jobs, projects, now, files, issued, loopVars, locals, claims,
                   apiVars, runHist>>

\* JobWorker.mark_failed: one update_job_status; when it raises, the
\* exception leaves process_job and reaches the handler of start().
MarkFailed(w) ==
    /\ pc[w] = "mark_failed"
    /\ \/ /\ jobs' = update_job_status(jobs, job[w].id, "failed",
                        [error_message |-> exc[w],
                         progress_message |-> "Processing failed"], now)
          /\ pc' = [pc EXCEPT ![w] = "cleanup_failed"]
          /\ UNCHANGED <<locals, runHist>>
       \/ /\ raised' = [raised EXCEPT ![w] = @ \cup {"mark_failed"}]
          /\ pc' = [pc EXCEPT ![w] = "loop_except"]
          /\ UNCHANGED <<jobs, locals, project_read, ran, cleanupRuns,
                         rmtreeRuns>>
    /\ UNCHANGED <<projects, now, files, issued, loopVars, claims, apiVars>>

\* except Exception in start(): the exception that left process_job is
\* logged, then time.sleep(self.poll_interval).
LoopExcept(w) ==
    /\ pc[w] = "loop_except"
    /\ pc' = [pc EXCEPT ![w] = LoopTest(running[w])]
    /\ Release(w)
    /\ UNCHANGED <<jobs, projects, now, files, issued, loopVars, claims, apiVars>>

\* Variant of cleanup_temp_files that removes the local file only.
cleanup_local_file_only(w, at, next) ==
    /\ pc[w] = at
    /\ localFile' = [localFile EXCEPT ![job[w].id] = FALSE]
    /\ cleanupRuns' = [cleanupRuns EXCEPT ![w] = @ + 1]
    /\ pc' = [pc EXCEPT ![w] = next]
    /\ UNCHANGED <<jobs, projects, now, stagingBlob, outputDir, issued,
                   loopVars, locals, claims, apiVars, project_read, ran, raised,
                   rmtreeRuns>>

\* JobWorker.cleanup_temp_files: os.remove(job.file_path) when it exists,
\* delete_blob(job.azure_path).
cleanup_temp_files(w, at, next) ==
    /\ pc[w] = at
    /\ localFile' = [localFile EXCEPT ![job[w].id] = FALSE]
    /\ stagingBlob' = [stagingBlob EXCEPT ![job[w].id] = FALSE]
    /\ cleanupRuns' = [cleanupRuns EXCEPT ![w] = @ + 1]
    /\ pc' = [pc EXCEPT ![w] = next]
    /\ UNCHANGED <<jobs, projects, now, outputDir, issued, loopVars, locals,
                   claims, apiVars, project_read, ran, raised, rmtreeRuns>>

\* if output_dir and os.path.exists(output_dir): shutil.rmtree(output_dir)
remove_output_dir(w, at, next) ==
    /\ pc[w] = at
    /\ IF output_dir[w] /\ outputDir[job[w].id]
       THEN /\ outputDir' = [outputDir EXCEPT ![job[w].id] = FALSE]
            /\ rmtreeRuns' = [rmtreeRuns EXCEPT ![w] = @ + 1]
       ELSE UNCHANGED <<outputDir, rmtreeRuns>>
    /\ pc' = [pc EXCEPT ![w] = next]
    /\ UNCHANGED <<jobs, projects, now, localFile, stagingBlob, issued,
                   loopVars, locals, claims, apiVars, project_read, ran, raised,
                   cleanupRuns>>

\* The worker's process dies inside process_job (it is killed, or an
\* exception that is not an Exception ends the thread): nothing it holds
\* is released and nothing more is written.
Crash(w) ==
    /\ pc[w] \in PipelinePcs
    /\ pc' = [pc EXCEPT ![w] = "crashed"]
    /\ Release(w)
    /\ UNCHANGED <<jobs, projects, now, files, issued, loopVars, claims,
                   apiVars>>

\* process_job returns to the loop.
Return(w) ==
    /\ pc[w] = "return"
    /\ pc' = [pc EXCEPT ![w] = "force_cleanup"]
    /\ Release(w)
    /\ UNCHANGED <<jobs, projects, now, files, issued, loopVars, claims, apiVars>>

\* Step 9 of the success path.
CleanupOk(w) == cleanup_temp_files(w, "cleanup_ok", "rmtree_ok")

RmtreeOk(w) == remove_output_dir(w, "rmtree_ok", "return")

\* The same two steps in the except branch.
CleanupFailed(w) == cleanup_temp_files(w, "cleanup_failed", "rmtree_failed")

RmtreeFailed(w) == remove_output_dir(w, "rmtree_failed", "return")

\* ------------------------------------------------- job store callers

\* What a caller may pass to update_job_status as status.
Statuses == {"pending", "processing", "completed", "failed"}

\* The keyword arguments of one call over the given fields: any step as
\* current_step, one value for each of the other fields.
KwargsOver(fields) ==
    {[f \in fields |->
         IF f = "current_step" THEN step
         ELSE IF f = "retry_count" THEN 1
         ELSE IF f = "progress_message" THEN "message"
         ELSE "error"] : step \in {Steps[i] : i \in 1..Len(Steps)}}

\* The keyword arguments of one call: any subset of the fields.
Kwargs == UNION {KwargsOver(fields) : fields \in SUBSET KwFields}

\* Some caller calls update_job_status(job_id, status, **kwargs).
UpdateJobStatus(job_id, status, kwargs) ==
    /\ jobs' = update_job_status(jobs, job_id, status, kwargs, now)
    /\ UNCHANGED <<projects, now, files, issued, workerVars, apiVars>>

\* create_job, first half: find_one({'_id': job_id}); raise ValueError when
\* a job is found.
CreateCheck(c, job_id) ==
    /\ creating[c] = 0
    /\ IF job_id \in DOMAIN jobs
       THEN /\ create_result' = [create_result EXCEPT ![c] = "ValueError"]
            /\ UNCHANGED creating
       ELSE /\ creating' = [creating EXCEPT ![c] = job_id]
            /\ create_result' = [create_result EXCEPT ![c] = None]
    /\ UNCHANGED <<jobs, projects, now, files, issued, workerVars, uploading,
                   updating, response, stop_called>>

\* Variant of CreateInsert on a collection without a unique key: the
\* insert goes through whatever the store holds.
CreateInsertNoKey(c, project_id) ==
    /\ creating[c] # 0
    /\ jobs' = create_job(jobs, project_id, creating[c], now)
    /\ create_result' = [create_result EXCEPT ![c] = "created"]
    /\ creating' = [creating EXCEPT ![c] = 0]
    /\ UNCHANGED <<projects, now, files, issued, workerVars, uploading,
                   updating, response, stop_called>>

\* create_job, second half: insert_one(doc); _id is the unique key of the
\* collection, so the insert raises DuplicateKeyError when the id is taken.
CreateInsert(c, project_id) ==
    /\ creating[c] # 0
    /\ IF creating[c] \in DOMAIN jobs
       THEN /\ create_result' = [create_result EXCEPT ![c] = "DuplicateKeyError"]
            /\ UNCHANGED jobs
       ELSE /\ jobs' = create_job(jobs, project_id, creating[c], now)
            /\ create_result' = [create_result EXCEPT ![c] = "created"]
    /\ creating' = [creating EXCEPT ![c] = 0]
    /\ UNCHANGED <<projects, now, files, issued, workerVars, uploading,
                   updating, response, stop_called>>

\* ------------------------------------------------------ project routes

\* The caller has no request in flight.
Idle(c) == creating[c] = 0 /\ uploading[c] = None /\ updating[c] = NoProject

\* upload_project up to the check of addProject: when the id exists,
\* addProject prints, returns None, and the route answers 201.
UploadCheck(c, id) ==
    /\ Idle(c)
    /\ IF id \in DOMAIN projects
       THEN /\ response' = [response EXCEPT ![c] = 201]
            /\ UNCHANGED uploading
       ELSE /\ uploading' = [uploading EXCEPT ![c] = id]
            /\ response' = [response EXCEPT ![c] = 0]
    /\ UNCHANGED <<jobs, projects, now, files, issued, workerVars, creating,
                   create_result, updating, stop_called>>

\* addProject from insert_one on, and the handler of upload_project: a
\* DuplicateKeyError ("E11000 duplicate key error") is answered 409; after
\* a successful insert addProject evaluates `return projects`, a name that
\* is not defined, and the NameError is answered 500.
UploadInsert(c) ==
    /\ uploading[c] # None
    /\ IF uploading[c] \in DOMAIN projects
       THEN /\ response' = [response EXCEPT ![c] = 409]
            /\ UNCHANGED projects
       ELSE /\ projects' = [id \in (DOMAIN projects) \cup {uploading[c]} |->
                              IF id = uploading[c] THEN NewProject(id)
                              ELSE projects[id]]
            /\ response' = [response EXCEPT ![c] = 500]
    /\ uploading' = [uploading EXCEPT ![c] = None]
    /\ UNCHANGED <<jobs, now, files, issued, workerVars, creating,
                   create_result, updating, stop_called>>

\* The names a request of update_project may carry; None: not supplied.
NameArgs == {None, "name1"}

\* update_project up to the assignments: getProject, 404 when there is no
\* project, then the supplied fields are set on the object read.
UpdateRead(c, id, name) ==
    /\ Idle(c)
    /\ IF id \in DOMAIN projects
       THEN /\ updating' = [updating EXCEPT
                  ![c] = [projects[id] EXCEPT
                            !.name = IF name # None THEN name ELSE @]]
            /\ response' = [response EXCEPT ![c] = 0]
       ELSE /\ response' = [response EXCEPT ![c] = 404]
            /\ UNCHANGED updating
    /\ UNCHANGED <<jobs, projects, now, files, issued, workerVars, creating,
                   create_result, uploading, stop_called>>

\* update_project: DB.updateProject(project), then 200.
UpdateWrite(c) ==
    /\ updating[c] # NoProject
    /\ projects' = updateProject(projects, updating[c])
    /\ response' = [response EXCEPT ![c] = 200]
    /\ updating' = [updating EXCEPT ![c] = NoProject]
    /\ UNCHANGED <<jobs, now, files, issued, workerVars, creating,
                   create_result, uploading, stop_called>>

\* ------------------------------------------------------ specification

\* One step of worker w: start(), the loop, process_job.
WorkerStep(w) ==
    \/ Start(w)
    \/ CheckCleanup(w)
    \/ GetNextJob(w)
    \/ Sleep(w)
    \/ GetProject(w)
    \/ StoreRaises(w)
    \/ UpdMetadata(w)
    \/ Metadata(w)
    \/ UpdThumbnail(w)
    \/ Thumbnail(w)
    \/ UpdateProject1(w)
    \/ UpdConversion(w)
    \/ Convert(w)
    \/ UpdUpload(w)
    \/ Upload(w)
    \/ UpdateProject2(w)
    \/ UpdCompleted(w)
    \/ MarkFailed(w)
    \/ LoopExcept(w)
    \/ CleanupOk(w)
    \/ RmtreeOk(w)
    \/ CleanupFailed(w)
    \/ RmtreeFailed(w)
    \/ Return(w)
    \/ ForceCleanup(w)

\* Several workers against one store, one job enqueued: every interleaving
\* of the claim, the pipeline with its failures, and the purge.
Next ==
    \/ \E p \in ProjectIds : issued = {} /\ Enqueue(p)
    \/ Tick
    \/ \E w \in Workers : WorkerStep(w)

Spec == Init /\ [][Next]_vars

\* One worker started, a backlog of up to MaxJobs jobs.
NextQueue ==
    \/ \E p \in ProjectIds : Enqueue(p)
    \/ Tick
    \/ WorkerStep(1)

SpecQueue == Init /\ [][NextQueue]_vars

\* Several workers, a backlog of up to MaxJobs jobs, workers that may die
\* inside the pipeline; the clock stands still.
NextCrash ==
    \/ \E p \in ProjectIds : Enqueue(p)
    \/ \E w \in Workers : WorkerStep(w)
    \/ \E w \in Workers : Crash(w)

SpecCrash == Init /\ [][NextCrash]_vars

\* get_next_job returns a job to worker w.
Claim(w) == GetNextJob(w) /\ job'[w].id # 0

\* One worker that keeps running and does not die, one job: every call
\* returns, so the worker always takes its next step, and the store does not
\* refuse the claim forever.
NextLive ==
    \/ \E p \in ProjectIds : issued = {} /\ Enqueue(p)
    \/ Tick
    \/ WorkerStep(1)

SpecLive ==
    Init /\ [][NextLive]_vars /\ WF_vars(WorkerStep(1)) /\ SF_vars(Claim(1))

\* One worker, one job, and a caller of stop(): every call of the worker
\* returns, so the worker always takes its next step.
NextStop ==
    \/ \E p \in ProjectIds : issued = {} /\ Enqueue(p)
    \/ Tick
    \/ WorkerStep(1)
    \/ Stop(1)
    \/ StartStopped(1)

SpecStop == Init /\ [][NextStop]_vars /\ WF_vars(WorkerStep(1))

\* One pipeline run interleaved with requests of upload_project and of
\* update_project.
NextProject ==
    \/ \E p \in ProjectIds : issued = {} /\ Enqueue(p)
    \/ WorkerStep(1)
    \/ \E c \in Callers, id \in ProjectIds : UploadCheck(c, id)
    \/ \E c \in Callers : UploadInsert(c)
    \/ \E id \in ProjectIds, name \in NameArgs : UpdateRead(1, id, name)
    \/ UpdateWrite(1)

SpecProject == Init /\ [][NextProject]_vars

\* The job store under arbitrary update_job_status calls on one job.
NextStatus ==
    \/ \E p \in ProjectIds : issued = {} /\ Enqueue(p)
    \/ \E j \in JobIds, st \in Statuses, kw \in Kwargs : UpdateJobStatus(j, st, kw)

SpecStatus == Init /\ [][NextStatus]_vars

\* Callers of create_job racing on the same ids.
NextCreate ==
    \/ \E c \in Callers, j \in JobIds : CreateCheck(c, j)
    \/ \E c \in Callers, p \in ProjectIds : CreateInsert(c, p)

SpecCreate == Init /\ [][NextCreate]_vars

\* ---------------------------------------------------------- properties

\* Where a status or a step stands in its order.
StatusStep(a, b) ==
    \/ a = b
    \/ a = "pending" /\ b = "processing"
    \/ a = "processing" /\ b \in Terminal

StepRank(s) == IF s = None THEN 0 ELSE CHOOSE i \in 1..Len(Steps) : Steps[i] = s

\* process_job has just been left by worker w, normally or by an exception;
\* the history of the run is still in place.
Exited(w) == pc[w] \in {"return", "loop_except"}

FatalSteps == {"metadata", "conversion", "upload"}

\* C1: whatever step is taken, a stored job's status stays or moves
\* pending -> processing or processing -> completed|failed, and a row that
\* appears is pending.
C1_StatusSequence ==
    [][\A j \in DOMAIN jobs' :
          IF j \in DOMAIN jobs
          THEN StatusStep(jobs[j].status, jobs'[j].status)
          ELSE jobs'[j].status = "pending"]_vars

\* A job has failed and another worker is about to attempt a claim.
C1_Witness ==
    \E j \in DOMAIN jobs, w \in Workers :
        /\ jobs[j].status = "failed"
        /\ claims[j] = 1
        /\ pc[w] = "get_next_job"

\* C2: get_next_job returns a job at most once, no two workers hold the
\* same job, and a job that was returned is no longer pending while a
\* processing job was returned exactly once.
C2_SingleClaim ==
    \A j \in JobIds :
        /\ claims[j] <= 1
        /\ Cardinality({w \in Workers : job[w].id = j}) <= 1
        /\ j \in DOMAIN jobs =>
              /\ claims[j] = 1 => jobs[j].status # "pending"
              /\ jobs[j].status = "processing" => claims[j] = 1

\* One worker got the job, another one called get_next_job and got None.
C2_Witness ==
    \E w1, w2 \in Workers, j \in DOMAIN jobs :
        /\ w1 # w2
        /\ pc[w1] = "get_project" /\ job[w1].id = j
        /\ jobs[j].status = "processing"
        /\ pc[w2] = "sleep"

\* C3: when process_job is left, cleanup_temp_files has run exactly once
\* and the output directory, if one was created, was removed exactly once.
C3_CleanupOnce ==
    \A w \in Workers :
        Exited(w) =>
            /\ cleanupRuns[w] = 1
            /\ rmtreeRuns[w] = (IF output_dir[w] THEN 1 ELSE 0)
            /\ ~localFile[job[w].id]
            /\ ~stagingBlob[job[w].id]
            /\ ~outputDir[job[w].id]

\* C4: a stored job has completed_at set exactly when its status is
\* completed or failed.
C4_CompletedAtIffTerminal ==
    \A j \in DOMAIN jobs :
        (jobs[j].completed_at # <<>>) <=> (jobs[j].status \in Terminal)

\* A job was marked failed at a later hour than it was created.
C4_Witness ==
    \E j \in DOMAIN jobs :
        /\ jobs[j].status = "failed"
        /\ jobs[j].completed_at = <<now>>
        /\ now > jobs[j].created_at

\* C5: the job a worker got from get_next_job is not younger than any job
\* that is pending.
C5_OldestFirst ==
    \A w \in Workers, k \in DOMAIN jobs :
        (job[w].id # 0 /\ jobs[k].status = "pending")
            => job[w].created_at <= jobs[k].created_at

\* The claim just made took the older of two pending jobs.
C5_Witness ==
    \E w \in Workers, k \in DOMAIN jobs :
        /\ pc[w] = "get_project"
        /\ jobs[k].status = "pending"
        /\ job[w].created_at < jobs[k].created_at

\* C6: whatever step is taken, a stored job's current_step does not move
\* to an earlier step of metadata, thumbnail, conversion, upload, completed.
C6_StepForward ==
    [][\A j \in (DOMAIN jobs) \cap (DOMAIN jobs') :
          StepRank(jobs'[j].current_step) >= StepRank(jobs[j].current_step)]_vars

\* mark_failed has recorded the failure of the upload step.
C6_Witness ==
    \E j \in DOMAIN jobs :
        /\ jobs[j].status = "failed"
        /\ jobs[j].current_step = "upload"
        /\ jobs[j].error_message = ErrMsg.upload

\* C7: when process_job is left after the metadata, conversion or upload
\* step raised, no later step's collaborator was invoked, the job (if its
\* row is still stored) is failed with the exception's message, and the
\* local input file and the staging object are gone.
C7_FatalStepAborts ==
    \A w \in Workers :
        (Exited(w) /\ raised[w] \cap FatalSteps # {}) =>
            /\ "metadata" \in raised[w] => ran[w] = {"metadata"}
            /\ "conversion" \in raised[w] => "upload" \notin ran[w]
            /\ job[w].id \in DOMAIN jobs =>
                  /\ jobs[job[w].id].status = "failed"
                  /\ jobs[job[w].id].error_message = exc[w]
            /\ ~localFile[job[w].id]
            /\ ~stagingBlob[job[w].id]

\* The positions of the except branch of process_job and beyond.
FailurePcs == {"mark_failed", "cleanup_failed", "rmtree_failed", "loop_except"}

\* The positions after the write of status completed.
DonePcs == {"cleanup_ok", "rmtree_ok", "return"}

\* The project document of the job worker w holds, as stored now.
StoredProject(w) == projects[job[w].project_id]

\* C8: a run in which only the thumbnail block raised never enters the
\* except branch; once past the completion write it has run conversion and
\* upload, the job's row, unless the reaper has purged it meanwhile, is
\* completed, and the project's thumbnail is the one the run read.
C8_ThumbnailSoft ==
    \A w \in Workers :
        raised[w] = {"thumbnail"} =>
            /\ pc[w] \notin FailurePcs
            /\ pc[w] \in DonePcs =>
                  /\ {"conversion", "upload"} \subseteq ran[w]
                  /\ job[w].id \in DOMAIN jobs =>
                        jobs[job[w].id].status = "completed"
                  /\ StoredProject(w).thumbnail = project_read[w].thumbnail

\* A run whose thumbnail block raised has finished as completed.
C8_Witness ==
    \E w \in Workers :
        /\ raised[w] = {"thumbnail"}
        /\ pc[w] = "return"
        /\ job[w].id \in DOMAIN jobs
        /\ jobs[job[w].id].status = "completed"
        /\ StoredProject(w).thumbnail = None

\* C8 as stated: the completion write of a run in which only the thumbnail
\* block raised leaves the job stored with status completed, after
\* conversion and upload, and the project without a thumbnail of this run.
C8_AsStated ==
    [][\A w \in Workers :
          (pc[w] = "upd_completed" /\ pc'[w] = "cleanup_ok"
             /\ raised[w] = {"thumbnail"}) =>
              /\ {"conversion", "upload"} \subseteq ran[w]
              /\ job[w].id \in DOMAIN jobs'
              /\ jobs'[job[w].id].status = "completed"
              /\ StoredProject(w).thumbnail = project_read[w].thumbnail]_vars

PurgeStep(w) ==
    /\ pc[w] \in {"check_cleanup", "force_cleanup"}
    /\ last_cleanup_time[w] # <<now>>
    /\ last_cleanup_time'[w] = <<now>>

\* C10: a purge removes exactly the stored jobs created more than 72 hours
\* ago, whatever their status, leaves the other rows as they were, and
\* returns the number of rows it removed.
C10_PurgeExact ==
    [][\A w \in Workers :
          PurgeStep(w) =>
              /\ DOMAIN jobs' =
                    {j \in DOMAIN jobs :
                        jobs[j].created_at >= now - RetentionHours}
              /\ \A j \in DOMAIN jobs' : jobs'[j] = jobs[j]
              /\ deleted_count'[w] =
                    Cardinality((DOMAIN jobs) \ (DOMAIN jobs'))]_vars

\* The purge just made removed a job that was never claimed and kept a
\* younger one.
C10_Witness ==
    \E w \in Workers, j \in issued, k \in DOMAIN jobs :
        /\ deleted_count[w] = 1
        /\ j \notin DOMAIN jobs
        /\ claims[j] = 0
        /\ jobs[k].created_at >= now - RetentionHours

StatusRank(st) == IF st = "pending" THEN 0 ELSE IF st = "processing" THEN 1 ELSE 2

\* C11: whatever the stored job and whatever the call, update_job_status
\* leaves the status no earlier in pending, processing, terminal and the
\* current_step no earlier in the step order than it found them.
C11_NeverRegresses ==
    \A j \in DOMAIN jobs, st \in Statuses, kw \in Kwargs :
        LET after == update_job_status(jobs, j, st, kw, now)[j] IN
        /\ StatusRank(after.status) >= StatusRank(jobs[j].status)
        /\ StepRank(after.current_step) >= StepRank(jobs[j].current_step)

\* The fields update_job_status may write in a call with these keywords.
Written(kw) == {"status", "completed_at"} \cup DOMAIN kw

\* C12: whatever the stored job and whatever the call, update_job_status
\* leaves every field it was not passed (status and completed_at aside) as
\* stored, leaves the other rows alone and creates no row.
C12_MergeOnly ==
    \A j \in JobIds, st \in Statuses, kw \in Kwargs :
        LET after == update_job_status(jobs, j, st, kw, now) IN
        /\ DOMAIN after = DOMAIN jobs
        /\ \A k \in DOMAIN jobs :
              /\ k # j => after[k] = jobs[k]
              /\ \A f \in (DOMAIN jobs[k]) \ Written(kw) : after[k][f] = jobs[k][f]
        /\ j \in DOMAIN jobs => \A f \in DOMAIN kw : after[j][f] = kw[f]

\* A call has set current_step on a job whose error_message was set before,
\* and no call ever passed a progress_message.
C12_Witness ==
    \E j \in DOMAIN jobs :
        /\ jobs[j].error_message = "error"
        /\ jobs[j].current_step = "upload"
        /\ jobs[j].progress_message = None
        /\ jobs[j].created_at = 0 /\ jobs[j].file_path = "upload.laz"

\* The step in which caller c's insert_one returns or raises.
InsertStep(c) == creating[c] # 0 /\ creating'[c] = 0

\* C13: create_job succeeds only on an id the store does not hold and then
\* adds exactly that row, pending; on an id the store holds, its check or
\* its insert fails with an error and the store is left as it was.
C13_CreateOnce ==
    [][\A c \in Callers :
          /\ (creating[c] = 0 /\ creating'[c] # 0) =>
                creating'[c] \notin DOMAIN jobs /\ jobs' = jobs
          /\ (creating[c] = 0 /\ creating'[c] = 0
                /\ create_result'[c] # create_result[c]) =>
                create_result'[c] = "ValueError" /\ jobs' = jobs
          /\ (InsertStep(c) /\ creating[c] \in DOMAIN jobs) =>
                create_result'[c] = "DuplicateKeyError" /\ jobs' = jobs
          /\ (InsertStep(c) /\ creating[c] \notin DOMAIN jobs) =>
                /\ create_result'[c] = "created"
                /\ DOMAIN jobs' = (DOMAIN jobs) \cup {creating[c]}
                /\ jobs'[creating[c]].status = "pending"
                /\ \A k \in DOMAIN jobs : jobs'[k] = jobs[k]]_vars

\* Two callers raced on one id: one created the job, the other's insert
\* was refused.
C13_Witness ==
    \E c1, c2 \in Callers :
        /\ create_result[c1] = "created"
        /\ create_result[c2] = "DuplicateKeyError"
        /\ Cardinality(DOMAIN jobs) = 1

\* No worker is inside process_job for job j, given who holds what.
Unattended(held, j) == \A w \in Workers : held[w].id # j

\* C14: get_next_job returns only a job that is pending and was never
\* returned before, and a job in processing that no worker is working on
\* keeps its row exactly as it is for as long as the row exists.
C14_ClaimOnlyPending ==
    [][\A j \in JobIds :
          /\ claims'[j] # claims[j] =>
                /\ j \in DOMAIN jobs
                /\ jobs[j].status = "pending"
                /\ claims[j] = 0
          /\ (j \in DOMAIN jobs /\ j \in DOMAIN jobs'
                /\ jobs[j].status = "processing" /\ Unattended(job, j)) =>
                /\ jobs'[j] = jobs[j]
                /\ Unattended(job', j)]_vars

\* A worker died with its job in processing; another worker has since
\* claimed the other job.
C14_Witness ==
    \E w1, w2 \in Workers, j \in DOMAIN jobs :
        /\ pc[w1] = "crashed"
        /\ jobs[j].status = "processing" /\ Unattended(job, j)
        /\ pc[w2] = "get_project" /\ job[w2].id # j

\* C15: a stored job eventually is completed or failed, unless the reaper
\* removes its row first.
C15_EventuallyTerminal ==
    \A j \in JobIds :
        (j \in DOMAIN jobs) ~>
            (j \notin DOMAIN jobs \/ jobs[j].status \in Terminal)

PipelineFields == {"location", "point_count", "thumbnail", "cloud"}
RequestFields == {"name"}

\* C17: a project write of the pipeline leaves the fields of update_project
\* as stored, and the write of update_project leaves the fields of the
\* pipeline as stored.
C17_DisjointWrites ==
    [][\A id \in (DOMAIN projects) \cap (DOMAIN projects') :
          /\ pc'[1] # pc[1] =>
                \A f \in RequestFields : projects'[id][f] = projects[id][f]
          /\ (\E c \in Callers : UpdateWrite(c)) =>
                \A f \in PipelineFields : projects'[id][f] = projects[id][f]]_vars

C19_ReturnsNormally ==
    \A w \in Workers :
        /\ pc[w] # "loop_except"
        /\ (pc[w] = "return" /\ job[w].id \in DOMAIN jobs) =>
              jobs[job[w].id].status \in Terminal

\* C20: when a worker calls get_next_job, every job in status processing
\* is held by another worker inside process_job, so none of them is a job
\* the calling worker claimed before.
C20_OneJobAtATime ==
    \A w \in Workers :
        pc[w] = "get_next_job" =>
            \A j \in DOMAIN jobs :
                jobs[j].status = "processing" =>
                    \E v \in Workers \ {w} : job[v].id = j

\* The steps whose end is the end of an iteration of the loop.
BoundaryPcs == {"sleep", "force_cleanup", "loop_except"}

\* C21: the loop is left only at the end of an iteration and with running
\* False; a pipeline during which stop() was called is left by a normal
\* return, with the job finished if its row is stored and the cleanup done
\* once; a worker that has left the loop stays there and changes neither
\* store.
C21_StopAtBoundary ==
    [][/\ (pc[1] # "stopped" /\ pc'[1] = "stopped" /\ pc[1] # "start") =>
             pc[1] \in BoundaryPcs /\ ~running[1]
       /\ (stop_called[1] /\ pc[1] \in PipelinePcs /\ pc'[1] \notin PipelinePcs) =>
             /\ pc[1] = "return"
             /\ cleanupRuns[1] = 1
             /\ job[1].id \in DOMAIN jobs => jobs[job[1].id].status \in Terminal
       /\ (pc[1] = "stopped" /\ issued' = issued) =>
             /\ pc'[1] = "stopped"
             /\ jobs' = jobs
             /\ projects' = projects]_vars

\* C22: a worker on which stop() has been called leaves its loop.
C22_StopExits == stop_called[1] ~> (pc[1] = "stopped")

\* The call of _check_and_run_cleanup that worker w has just made called
\* cleanup_old_jobs: the purge returned, or it raised.
ReaperInvoked(w) ==
    \/ /\ last_cleanup_time'[w] = <<now>>
       /\ jobs' = cleanup_old_jobs(jobs, now, RetentionHours)
    \/ deleted_count'[w] = PurgeRaised

\* C23: a worker that has not started has made no purge; the first step of
\* start() leads to _check_and_run_cleanup, every claim attempt is reached
\* from that call, and the call made with no purge behind it invokes
\* cleanup_old_jobs.
C23_FirstRunPurges ==
    [][\A w \in Workers :
          /\ pc[w] = "start" =>
                /\ last_cleanup_time[w] = <<>>
                /\ pc'[w] \in {"start", "check_cleanup"}
          /\ (pc'[w] = "get_next_job" /\ pc[w] # "get_next_job") =>
                pc[w] = "check_cleanup"
          /\ (pc[w] = "check_cleanup" /\ pc'[w] # pc[w]
                /\ last_cleanup_time[w] = <<>>) => ReaperInvoked(w)]_vars

\* A worker that had made no purge, and that no job was ever given to, has
\* purged an old row and is about to make a claim attempt.
C23_Witness ==
    \E w \in Workers :
        /\ pc[w] = "get_next_job"
        /\ last_cleanup_time[w] = <<now>>
        /\ deleted_count[w] >= 1
        /\ \A j \in JobIds : claims[j] = 0

\* The call of _check_and_run_cleanup worker w is making at this step.
CleanupCall(w) ==
    /\ pc[w] \in {"check_cleanup", "force_cleanup"}
    /\ pc'[w] # pc[w]

\* The earliest time at which a purge was due after the last one that
\* succeeded is the present time, and the call before this one raised: the
\* purge that raised was made at the present time.
RaisedNow(w) ==
    /\ last_cleanup_time[w] # <<>>
    /\ deleted_count[w] = PurgeRaised
    /\ \A t \in TimePoints :
          t - last_cleanup_time[w][1] >= CleanupIntervalHours => t >= now

C25_PurgeFailureSwallowed ==
    [][\A w \in Workers :
          (CleanupCall(w) /\ deleted_count'[w] = PurgeRaised) =>
              /\ pc[w] = "check_cleanup" => pc'[w] = "get_next_job"
              /\ pc[w] = "force_cleanup" => pc'[w] = LoopTest(running[w])
              /\ jobs' = jobs
              /\ projects' = projects
              /\ last_cleanup_time' = last_cleanup_time
              /\ running' = running]_vars

\* The purge at the top of an iteration has raised and the worker is about
\* to claim the pending job.
C25_Witness ==
    \E w \in Workers, j \in DOMAIN jobs :
        /\ pc[w] = "get_next_job"
        /\ deleted_count[w] = PurgeRaised
        /\ jobs[j].status = "pending"

\* C26: a call of get_next_job either returns a job or is followed by the
\* sleep, whatever the store did; the sleep, the handler of the loop and the
\* call of _check_and_run_cleanup after a job lead back to the top of the
\* loop while running is True; the loop is left only with running False,
\* after a call of stop().
C26_LoopSurvives ==
    [][/\ (pc[1] = "get_next_job" /\ pc'[1] # pc[1]) =>
             IF job'[1].id # 0 THEN pc'[1] = "get_project" ELSE pc'[1] = "sleep"
       /\ (pc[1] \in BoundaryPcs /\ pc'[1] # pc[1] /\ running[1]) =>
             pc'[1] = "check_cleanup"
       /\ (pc[1] # "stopped" /\ pc'[1] = "stopped") =>
             stop_called'[1] /\ ~running'[1]]_vars

\* A claim attempt made while a job was pending returned nothing and the
\* worker, still running, sleeps.
C26_Witness ==
    \E j \in DOMAIN jobs :
        /\ pc[1] = "sleep"
        /\ running[1]
        /\ jobs[j].status = "pending"
        /\ jobs[j].created_at < now
        /\ last_cleanup_time[1] = <<now>>

\* Worker w makes the project write at position at.
ProjectWrite(w, at) ==
    /\ pc[w] = at
    /\ pc'[w] \notin {at, "mark_failed"}

\* C27: the project store changes only in one of the two project writes of
\* a pipeline. The first is made with metadata and thumbnail run, metadata
\* not failed and conversion not begun, and stores location, point_count
\* and thumbnail of the pipeline's project object with the cloud URL as
\* read; the second is made after an upload that did not fail and stores
\* the cloud URL. While a run in which metadata failed is under way the
\* project is as that run read it, and while a run in which conversion or
\* upload failed is under way its cloud URL is as read.
C27_TwoProjectWrites ==
    [][/\ projects' # projects =>
             \E w \in Workers :
                 ProjectWrite(w, "update_project1") \/ ProjectWrite(w, "update_project2")
       /\ \A w \in Workers :
             /\ ProjectWrite(w, "update_project1") =>
                   /\ ran[w] = {"metadata", "thumbnail"}
                   /\ "metadata" \notin raised[w]
                   /\ projects' = updateProject(projects, project[w])
                   /\ project[w].cloud = project_read[w].cloud
             /\ ProjectWrite(w, "update_project2") =>
                   /\ ran[w] = {"metadata", "thumbnail", "conversion", "upload"}
                   /\ raised[w] \subseteq {"thumbnail"}
                   /\ projects' = updateProject(projects, project[w])
                   /\ project[w].cloud = "metadata.json?sas"
             /\ (job[w].project_id \in DOMAIN projects /\ "metadata" \in raised[w]) =>
                   projects[job[w].project_id] = project_read[w]
             /\ (job[w].project_id \in DOMAIN projects
                   /\ raised[w] \cap {"conversion", "upload"} # {}) =>
                   projects[job[w].project_id].cloud = project_read[w].cloud]_vars

\* A run whose upload failed is in its failure branch: the project holds
\* the metadata and the thumbnail of the first write and no cloud URL.
C27_Witness ==
    \E w \in Workers :
        /\ pc[w] = "cleanup_failed"
        /\ "upload" \in raised[w]
        /\ job[w].project_id \in DOMAIN projects
        /\ projects[job[w].project_id].point_count = 7
        /\ projects[job[w].project_id].thumbnail = "thumbnail.png?sas"
        /\ projects[job[w].project_id].cloud = None

\* The step whose collaborator is invoked at each position of process_job.
StepAt == [metadata |-> "metadata", thumbnail |-> "thumbnail",
           convert |-> "conversion", upload |-> "upload"]

\* C28: while a worker is at the invocation of a step's collaborator, the
\* row of its job, if stored, is processing, names that step as
\* current_step and carries a progress message.
C28_StepPersistedFirst ==
    \A w \in Workers :
        (pc[w] \in DOMAIN StepAt /\ job[w].id \in DOMAIN jobs) =>
            /\ jobs[job[w].id].status = "processing"
            /\ jobs[job[w].id].current_step = StepAt[pc[w]]
            /\ jobs[job[w].id].progress_message # None

\* The converter is about to run and the stored job names conversion.
C28_Witness ==
    \E w \in Workers :
        /\ pc[w] = "convert"
        /\ job[w].id \in DOMAIN jobs
        /\ jobs[job[w].id].current_step = "conversion"

\* C29: a stored job that is pending or processing still has its local
\* input file and its staging blob, and the worker that holds it has run
\* neither cleanup_temp_files nor the removal of the output directory.
C29_ReleaseAfterTerminal ==
    /\ \A j \in DOMAIN jobs :
          jobs[j].status \notin Terminal => localFile[j] /\ stagingBlob[j]
    /\ \A w \in Workers :
          (job[w].id \in DOMAIN jobs /\ jobs[job[w].id].status \notin Terminal) =>
              cleanupRuns[w] = 0 /\ rmtreeRuns[w] = 0

\* A failed run has recorded the failure and then removed the input file,
\* the staging blob and the output directory it had created.
C29_Witness ==
    \E w \in Workers :
        /\ pc[w] = "return"
        /\ job[w].id \in DOMAIN jobs
        /\ jobs[job[w].id].status = "failed"
        /\ cleanupRuns[w] = 1
        /\ rmtreeRuns[w] = 1
        /\ ~localFile[job[w].id]
        /\ ~stagingBlob[job[w].id]

\* The job worker w holds was purged while w was processing it.
PurgedInFlight(w) == job[w].id # 0 /\ job[w].id \notin DOMAIN jobs

\* C30: a job id whose row was removed never has a row again; a worker
\* whose job was purged in flight leaves process_job by a normal return,
\* with the cleanup run once and the files gone, and with all four steps
\* run when none of its calls but the thumbnail raised.
C30_PurgedStaysPurged ==
    [][/\ \A j \in issued : j \notin DOMAIN jobs => j \notin DOMAIN jobs'
       /\ \A w \in Workers :
             (PurgedInFlight(w) /\ pc[w] \in PipelinePcs
                 /\ pc'[w] \notin PipelinePcs) =>
                 /\ pc[w] = "return"
                 /\ cleanupRuns[w] = 1
                 /\ ~localFile[job[w].id]
                 /\ ~stagingBlob[job[w].id]
                 /\ raised[w] \subseteq {"thumbnail"} =>
                       ran[w] = {"metadata", "thumbnail", "conversion", "upload"}]_vars

\* The positions of the handler of process_job after mark_failed returned.
AfterMarkFailed == {"cleanup_failed", "rmtree_failed", "return"}

\* C31: a stored job has current_step completed exactly when its status
\* is completed; a failed job whose worker has not yet left process_job
\* names the step whose collaborator raised, and names no step when
\* getProject raised.
C31_StepCompletedIffStatus ==
    /\ \A j \in DOMAIN jobs :
          (jobs[j].current_step = "completed") <=> (jobs[j].status = "completed")
    /\ \A w \in Workers :
          (/\ pc[w] \in AfterMarkFailed
           /\ job[w].id \in DOMAIN jobs
           /\ jobs[job[w].id].status = "failed") =>
              /\ \A s \in FatalSteps :
                    s \in raised[w] => jobs[job[w].id].current_step = s
              /\ "getProject" \in raised[w] =>
                    jobs[job[w].id].current_step = None

\* A conversion that raised left a failed job that still names conversion.
C31_Witness ==
    \E w \in Workers :
        /\ pc[w] = "return"
        /\ "conversion" \in raised[w]
        /\ job[w].id \in DOMAIN jobs
        /\ jobs[job[w].id].status = "failed"
        /\ jobs[job[w].id].current_step = "conversion"

\* A job whose project does not exist failed without a current_step.
C31_WitnessNoStep ==
    \E w \in Workers :
        /\ pc[w] = "return"
        /\ "getProject" \in raised[w]
        /\ job[w].id \in DOMAIN jobs
        /\ jobs[job[w].id].status = "failed"
        /\ jobs[job[w].id].current_step = None

\* C32: a step changes a worker's last_cleanup_time only as a call of
\* _check_and_run_cleanup whose purge returned, and sets it to the present
\* time; a purge that raised leaves it as it was; while the worker has no
\* purge that returned behind it, every call of _check_and_run_cleanup, at
\* the top of an iteration and after a job, calls cleanup_old_jobs.
C32_StampOnlyOnSuccess ==
    [][\A w \in Workers :
          /\ last_cleanup_time'[w] # last_cleanup_time[w] =>
                /\ CleanupCall(w)
                /\ deleted_count'[w] # PurgeRaised
                /\ deleted_count'[w] =
                      Cardinality(OldJobs(jobs, now, RetentionHours))
                /\ jobs' = cleanup_old_jobs(jobs, now, RetentionHours)
                /\ last_cleanup_time'[w] = <<now>>
          /\ (CleanupCall(w) /\ deleted_count'[w] = PurgeRaised) =>
                last_cleanup_time'[w] = last_cleanup_time[w]
          /\ (CleanupCall(w) /\ last_cleanup_time[w] = <<>>) =>
                ReaperInvoked(w)]_vars

\* The purge a worker made after a job raised, no purge of that worker has
\* returned yet, and the worker is at the call at the top of the next
\* iteration, where the purge is due again.
C32_Witness ==
    \E w \in Workers :
        /\ pc[w] = "check_cleanup"
        /\ deleted_count[w] = PurgeRaised
        /\ last_cleanup_time[w] = <<>>
        /\ should_cleanup(last_cleanup_time[w], FALSE, now)

\* The positions of start() at which the worker is in time.sleep: the
\* sleep of an idle iteration and the sleep of the handler of the loop.
SleepPcs == {"sleep", "loop_except"}

\* C33: the worker enters a sleep only from a claim attempt that returned
\* no job; an iteration that claimed a job reaches the next claim attempt
\* without a sleep.
C33_SleepOnlyWhenIdle ==
    [][(pc'[1] \in SleepPcs /\ pc[1] # pc'[1]) =>
          (pc[1] = "get_next_job" /\ job'[1].id = 0)]_vars

\* The part of C33 that holds: a worker enters a sleep from a claim attempt
\* that returned no job or from a mark_failed that raised, and a
\* process_job that returned is followed by the forced call of
\* _check_and_run_cleanup and the top of the next iteration.
C33_SleepIdleOrEscaped ==
    [][/\ (pc'[1] \in SleepPcs /\ pc[1] # pc'[1]) =>
             \/ pc[1] = "get_next_job" /\ job'[1].id = 0
             \/ pc[1] = "mark_failed" /\ "mark_failed" \in raised'[1]
       /\ (pc[1] = "return" /\ pc'[1] # pc[1]) => pc'[1] = "force_cleanup"
       /\ (pc[1] = "force_cleanup" /\ pc'[1] # pc[1]) =>
             pc'[1] = LoopTest(running[1])]_vars

\* The positions of process_job at which a collaborator is given the
\* project's CRS: CloudMetadata its EPSG hint, the converter the project.
CrsUses == {"metadata", "convert"}

\* C34: no step changes the CRS of a stored project; each project write of
\* a pipeline stores the CRS that the pipeline read at its start; the hint
\* given to the metadata extraction is EPSG: followed by that CRS, and the
\* project given to the converter carries that CRS.
C34_CrsAsRead ==
    [][/\ \A id \in DOMAIN projects :
             id \in DOMAIN projects' => projects'[id].crs = projects[id].crs
       /\ \A w \in Workers :
             /\ \A at \in {"update_project1", "update_project2"} :
                   ProjectWrite(w, at) =>
                       /\ job[w].project_id \in DOMAIN projects'
                       /\ projects'[job[w].project_id].crs = project_read[w].crs
             /\ (pc[w] \in CrsUses /\ pc'[w] # pc[w]) =>
                   /\ project[w].crs = project_read[w].crs
                   /\ crs_epsg(project[w]) = "EPSG:" \o project_read[w].crs]_vars

\* A pipeline has made both project writes, the second with the cloud URL,
\* and the stored project has the CRS the pipeline read.
C34_Witness ==
    \E w \in Workers :
        /\ pc[w] = "upd_completed"
        /\ project_read[w] # NoProject
        /\ projects[job[w].project_id].cloud = "metadata.json?sas"
        /\ projects[job[w].project_id].point_count = 7
        /\ projects[job[w].project_id].crs = project_read[w].crs
        /\ crs_epsg(project[w]) = "EPSG:26916"

====
